---- MODULE Spec2Model ----
(***************************************************************************)
(* The documentation site of the repository: the explicit sidebar of       *)
(* sidebars.ts (the Navigation Tree), the content documents with their     *)
(* front-matter (the Content Store), and a build that walks the sidebar in *)
(* pre-order to produce the sidebar order and the previous/next links.     *)
(***************************************************************************)
EXTENDS Integers, Sequences, FiniteSets, TLC

\* ------------------------------------------------------------ bounds
\* Builds run in one behaviour.
MaxBuilds == 3
\* Front-matter edits made in one behaviour.
MaxEdits == 2
\* Builds of the security pipeline the Builds API holds for one branch.
MaxApiBuilds == 3
\* Devices one scan discovers.
MaxNearby == 2
\* Functions deployed in the Function App.
MaxFunctions == 2
\* Nodes or replicas an autoscaler may ask for.
MaxWanted == 12

\* ---------------------------------------------------- Content Store
\* The sidebar_position of each content document's front-matter block.
IntroPosition == 1
AksTerraformDeploymentPosition == 2
AzureFunctionsPowershellPosition == 3
BluetoothBleTroubleshootingPosition == 4
AzureDevopsSecurityPipelinePosition == 5
OrganizationalStructurePosition == 1

\* A front-matter `sidebar_position`: an integer, absent, or not a number.
Position(n) == [kind |-> "int", n |-> n]
MissingPosition == [kind |-> "missing", n |-> 0]
InvalidPosition == [kind |-> "invalid", n |-> 0]

\* One document shipped with no sidebar_position in its front-matter.
ShippedStoreBareDocument ==
    [d \in { "Ariba DevOps/intro",
             "Ariba DevOps/aks-terraform-deployment",
             "Ariba DevOps/azure-functions-powershell",
             "Ariba DevOps/bluetooth-ble-troubleshooting",
             "Ariba DevOps/azure-devops-security-pipeline",
             "CN Org Structure/organizational-structure" } |->
        CASE d = "Ariba DevOps/intro" -> Position(IntroPosition)
          [] d = "Ariba DevOps/aks-terraform-deployment" ->
                 Position(AksTerraformDeploymentPosition)
          [] d = "Ariba DevOps/azure-functions-powershell" ->
                 Position(AzureFunctionsPowershellPosition)
          [] d = "Ariba DevOps/bluetooth-ble-troubleshooting" ->
                 Position(BluetoothBleTroubleshootingPosition)
          [] d = "Ariba DevOps/azure-devops-security-pipeline" ->
                 Position(AzureDevopsSecurityPipelinePosition)
          [] OTHER -> MissingPosition]

\* The content documents of docs/, by path (directory/slug), as shipped.
ShippedStore ==
    [d \in { "Ariba DevOps/intro",
             "Ariba DevOps/aks-terraform-deployment",
             "Ariba DevOps/azure-functions-powershell",
             "Ariba DevOps/bluetooth-ble-troubleshooting",
             "Ariba DevOps/azure-devops-security-pipeline",
             "CN Org Structure/organizational-structure" } |->
        CASE d = "Ariba DevOps/intro" -> Position(IntroPosition)
          [] d = "Ariba DevOps/aks-terraform-deployment" ->
                 Position(AksTerraformDeploymentPosition)
          [] d = "Ariba DevOps/azure-functions-powershell" ->
                 Position(AzureFunctionsPowershellPosition)
          [] d = "Ariba DevOps/bluetooth-ble-troubleshooting" ->
                 Position(BluetoothBleTroubleshootingPosition)
          [] d = "Ariba DevOps/azure-devops-security-pipeline" ->
                 Position(AzureDevopsSecurityPipelinePosition)
          [] OTHER -> Position(OrganizationalStructurePosition)]

\* The directory of docs/ a document lies in: the part of its path before "/".
Directory(d) ==
    IF d = "CN Org Structure/organizational-structure"
    THEN "CN Org Structure" ELSE "Ariba DevOps"

\* The document paths in ascending string order (the filesystem/lexical order).
LexicalOrder ==
    << "Ariba DevOps/aks-terraform-deployment",
       "Ariba DevOps/azure-devops-security-pipeline",
       "Ariba DevOps/azure-functions-powershell",
       "Ariba DevOps/bluetooth-ble-troubleshooting",
       "Ariba DevOps/intro",
       "CN Org Structure/organizational-structure" >>

LexRank(d) == CHOOSE i \in 1..Len(LexicalOrder) : LexicalOrder[i] = d

NoDoc == "none"

NoBranch == "none"

\* The jobs of stage SecurityScan of azure-pipelines-security.yml.
ScanJobs ==
    {"SASTAnalysis", "DependencyScanning", "SecretDetection",
     "IaCSecurityScan", "ContainerScanning", "ComplianceCheck"}

JobNames == ScanJobs \cup {"SecurityReport"}

NoPr ==
    [target |-> << >>, gitleaks |-> FALSE, trufflehog |-> FALSE,
     snyk |-> FALSE, policy |-> FALSE]

NoComment == [step |-> "pending", body |-> << >>]

VARIABLES
    store,      \* Content Store: path -> front-matter position
    edits,      \* front-matter edits made so far
    phase,      \* "idle" | "building" | "built"
    builds,     \* builds started so far
    stack,      \* references still to visit, the next one first
    visited,    \* references visited by the running build
    order,      \* documents emitted by the running (or last) build
    nextLink,   \* path -> the document its "next" link leads to
    prevLink,   \* path -> the document its "previous" link leads to
    prevOrder,  \* order of the build completed before this one
    dirty,      \* the Content Store was edited since the last build started
    sameInput,  \* the running (or last) build read what the one before it read
    page,       \* the document the reader has open
    landing,    \* the landing page as rendered: rows of feature blocks
    pr,         \* the pull request the security pipeline validates
    run,        \* the pipeline run: "none" | "running" | "succeeded" | "failed"
    job,        \* job name -> "pending" | "running" | "succeeded" | "failed"
                \*             | "skipped"
    step,       \* the step of SecretDetection to run next (0: none)
    gitleaksReport,     \* gitleaks-report.json: "absent" | "[]" | "findings"
    trufflehogReport,   \* trufflehog-report.json: "absent" | "" | "findings"
    event,      \* the last event in the repository: "none" | "push" | "pr"
    reportStep, \* the step of SecurityReport to run next (0: none)
    reportFailed,       \* a step of SecurityReport has failed
    comment,    \* the step 'Comment on PR' and the comment it posted
    apiBuilds,  \* the builds the Builds API returns for the PR's source branch
    validated,  \* what the PR validation script returned: "none" | "$true"
                \*                                          | "$false"
    nearby,     \* the devices BleakScanner.discover returned
    device_address,     \* self.device_address ("None" until a scan finds it)
    diagPc,     \* where run_full_diagnostic is
    diagTrace,  \* the steps run_full_diagnostic has run, with what they returned
    diagResult, \* what run_full_diagnostic returned: "none" | "True" | "False"
    char_uuid,  \* the argument of test_notifications
    notifyPc,   \* where test_notifications is
    notifyTrace,        \* the client operations of test_notifications
    notifyPending,      \* the value test_notifications is about to return
    notifyResult,       \* what test_notifications returned
    azure,      \* Azure as the Functions scripts find it
    call,       \* the script function called, and what came back
    csv,        \* the file at $OutputPath
    nodes,      \* AKS node pool -> its node count
    replicas,   \* the replicas of deployment sample-app
    lastPush,   \* the branch of the last push
    workflow,   \* the deployment workflow: "idle" | "running" | "completed"
    deployed    \* the site is being served by GitHub Pages

\* The documentation site built and read locally.
siteVars == << store, edits, phase, builds, stack, visited, order,
              nextLink, prevLink, prevOrder, dirty, sameInput, page >>

\* The landing page and the deployment of the site.
pageVars == << landing, lastPush, workflow, deployed >>

pipelineVars ==
    << pr, run, job, step, gitleaksReport, trufflehogReport,
       event, reportStep, reportFailed, comment >>

\* The PR validation script.
scriptVars == << apiBuilds, validated >>

\* The scripts and configurations shown in the documents.
\* BLEDiagnostics.run_full_diagnostic and BLEDiagnostics.test_notifications.
diagVars == << nearby, device_address, diagPc, diagTrace, diagResult >>

notifyVars ==
    << char_uuid, notifyPc, notifyTrace, notifyPending, notifyResult >>

\* The Azure Functions scripts.
functionVars == << azure, call, csv >>

\* The AKS cluster and the sample deployment.
aksVars == << nodes, replicas >>

exampleVars ==
    << scriptVars, diagVars, notifyVars, functionVars, aksVars >>

vars == << siteVars, pageVars, pipelineVars, exampleVars >>

\* ------------------------------------------------- Navigation Tree
\* A string entry of `items` is the shorthand of a doc reference.
Doc(id) == [type |-> "doc", id |-> id]
\* An object entry { type: 'category', label, items }; `items` is held apart,
\* in CategoryItems, as the object's reference to its array.
Category(label) == [type |-> "category", id |-> label]

Categories == {"Ariba DevOps", "CN Org Structure"}

\* The last two items of "Ariba DevOps" listed the other way round.
CategoryItemsSwapped(label) ==
    IF label = "Ariba DevOps"
    THEN << Doc("Ariba DevOps/intro"),
            Doc("Ariba DevOps/aks-terraform-deployment"),
            Doc("Ariba DevOps/azure-functions-powershell"),
            Doc("Ariba DevOps/azure-devops-security-pipeline"),
            Doc("Ariba DevOps/bluetooth-ble-troubleshooting") >>
    ELSE << Doc("CN Org Structure/organizational-structure") >>

\* One document listed in both categories.
CategoryItemsDuplicate(label) ==
    IF label = "Ariba DevOps"
    THEN << Doc("Ariba DevOps/intro"),
            Doc("Ariba DevOps/aks-terraform-deployment"),
            Doc("Ariba DevOps/azure-functions-powershell"),
            Doc("Ariba DevOps/bluetooth-ble-troubleshooting"),
            Doc("Ariba DevOps/azure-devops-security-pipeline") >>
    ELSE << Doc("CN Org Structure/organizational-structure"),
            Doc("Ariba DevOps/intro") >>

\* A path that names no content file.
CategoryItemsDangling(label) ==
    IF label = "Ariba DevOps"
    THEN << Doc("Ariba DevOps/introduction"),
            Doc("Ariba DevOps/aks-terraform-deployment"),
            Doc("Ariba DevOps/azure-functions-powershell"),
            Doc("Ariba DevOps/bluetooth-ble-troubleshooting"),
            Doc("Ariba DevOps/azure-devops-security-pipeline") >>
    ELSE << Doc("CN Org Structure/organizational-structure") >>

\* A category that lists itself among its items.
CategoryItemsCyclic(label) ==
    IF label = "Ariba DevOps"
    THEN << Doc("Ariba DevOps/intro"),
            Doc("Ariba DevOps/aks-terraform-deployment"),
            Doc("Ariba DevOps/azure-functions-powershell"),
            Doc("Ariba DevOps/bluetooth-ble-troubleshooting"),
            Doc("Ariba DevOps/azure-devops-security-pipeline"),
            Category("Ariba DevOps") >>
    ELSE << Doc("CN Org Structure/organizational-structure") >>

\* Items generated from the Content Store (type 'autogenerated') instead of
\* listed: the documents of the directory by sidebar_position, those without a
\* valid one after them, in lexical order.
CategoryItemsAutogenerated(label) ==
    LET inDir == SelectSeq(LexicalOrder, LAMBDA d : Directory(d) = label)
        Key(d) == IF store[d].kind = "int"
                  THEN store[d].n * 10 + LexRank(d)
                  ELSE 1000 + LexRank(d)
        sorted == SortSeq(inDir, LAMBDA a, b : Key(a) < Key(b))
    IN [i \in 1..Len(sorted) |-> Doc(sorted[i])]

\* sidebars.ts: the `items` array of each category of tutorialSidebar.
CategoryItems(label) ==
    IF label = "Ariba DevOps"
    THEN << Doc("Ariba DevOps/intro"),
            Doc("Ariba DevOps/aks-terraform-deployment"),
            Doc("Ariba DevOps/azure-functions-powershell"),
            Doc("Ariba DevOps/bluetooth-ble-troubleshooting"),
            Doc("Ariba DevOps/azure-devops-security-pipeline") >>
    ELSE << Doc("CN Org Structure/organizational-structure") >>

\* A configuration whose value differs from one evaluation to the next.
tutorialSidebarPerRun ==
    IF builds % 2 = 0
    THEN << Category("Ariba DevOps"), Category("CN Org Structure") >>
    ELSE << Category("CN Org Structure"), Category("Ariba DevOps") >>

\* sidebars.ts: sidebars.tutorialSidebar, the root sequence.
tutorialSidebar ==
    << Category("Ariba DevOps"), Category("CN Org Structure") >>


\* ---------------------------------------------- the tree as a whole
Range(s) == { s[i] : i \in 1..Len(s) }

Occurrences(s, x) == Cardinality({ i \in 1..Len(s) : s[i] = x })

\* The references found in `items` and, following categories at most `fuel`
\* levels down, in the items below them.
RECURSIVE RefsWithin(_, _)
RefsWithin(items, fuel) ==
    Range(items) \cup
    IF fuel = 0 THEN {}
    ELSE UNION { RefsWithin(CategoryItems(r.id), fuel - 1) :
                 r \in { x \in Range(items) : x.type = "category" } }

\* A cycle through k categories shows within k levels.
MaxDepth == Cardinality(Categories)

\* Every document path referenced anywhere in the configuration.
ReferencedPaths ==
    { r.id : r \in { x \in RefsWithin(tutorialSidebar, MaxDepth) :
                     x.type = "doc" } }

\* No category is found among the references below it.
Acyclic ==
    \A c \in Categories :
        Category(c) \notin RefsWithin(CategoryItems(c), MaxDepth)

\* The number of visits the references of `items` take, categories followed
\* at most `fuel` levels down.
RECURSIVE Visits(_, _)
Visits(items, fuel) ==
    IF items = << >> THEN 0
    ELSE LET r == Head(items)
         IN 1 + (IF r.type = "category" /\ fuel > 0
                 THEN Visits(CategoryItems(r.id), fuel - 1) ELSE 0)
              + Visits(Tail(items), fuel)

\* ------------------------------------------------------------ build
NoLinks == [d \in DOMAIN ShippedStore |-> NoDoc]

Init ==
    /\ store = ShippedStore
    /\ edits = 0
    /\ phase = "idle"
    /\ builds = 0
    /\ stack = << >>
    /\ visited = 0
    /\ order = << >>
    /\ nextLink = NoLinks
    /\ prevLink = NoLinks
    /\ prevOrder = << >>
    /\ dirty = FALSE
    /\ sameInput = FALSE
    /\ page = NoDoc
    /\ landing = << >>
    /\ lastPush = NoBranch
    /\ workflow = "idle"
    /\ deployed = FALSE
    /\ pr = NoPr
    /\ run = "none"
    /\ job = [j \in JobNames |-> "pending"]
    /\ step = 0
    /\ gitleaksReport = "absent"
    /\ trufflehogReport = "absent"
    /\ event = "none"
    /\ reportStep = 0
    /\ reportFailed = FALSE
    /\ comment = NoComment
    /\ apiBuilds = << >>
    /\ validated = "none"
    /\ nearby = << >>
    /\ device_address = "None"
    /\ diagPc = "idle"
    /\ diagTrace = << >>
    /\ diagResult = "none"
    /\ char_uuid = "None"
    /\ notifyPc = "idle"
    /\ notifyTrace = << >>
    /\ notifyPending = "False"
    /\ notifyResult = "none"
    /\ azure = [app |-> TRUE, token |-> TRUE, rest |-> TRUE,
                functions |-> << >>]
    /\ call = [function |-> "none", raised |-> FALSE,
               value |-> [null |-> TRUE, items |-> << >>]]
    /\ csv = [file |-> "absent", rows |-> << >>]
    /\ nodes = [pool \in {"default", "gpunodepool"} |->
                   IF pool = "default" THEN 3 ELSE 1]
    /\ replicas = 3

\* The author edits a document's front-matter between builds.
EditFrontMatter(d, fm) ==
    /\ phase # "building"
    /\ edits < MaxEdits
    /\ store[d] # fm
    /\ store' = [store EXCEPT ![d] = fm]
    /\ edits' = edits + 1
    /\ dirty' = TRUE
    /\ UNCHANGED << phase, builds, stack, visited, order, nextLink, prevLink,
                    prevOrder, sameInput, page >>

\* `yarn build`: the sidebar configuration is evaluated and the walk starts.
StartBuild ==
    /\ phase \in {"idle", "built"}
    /\ builds < MaxBuilds
    /\ phase' = "building"
    /\ builds' = builds + 1
    /\ stack' = tutorialSidebar
    /\ visited' = 0
    /\ order' = << >>
    /\ nextLink' = NoLinks
    /\ prevLink' = NoLinks
    /\ prevOrder' = IF phase = "built" THEN order ELSE << >>
    /\ sameInput' = (phase = "built" /\ ~dirty)
    /\ dirty' = FALSE
    /\ page' = NoDoc
    /\ UNCHANGED << store, edits >>

\* Pre-order: a category is replaced by its items, ahead of what follows it.
VisitCategory ==
    /\ phase = "building"
    /\ stack # << >>
    /\ Head(stack).type = "category"
    /\ stack' = CategoryItems(Head(stack).id) \o Tail(stack)
    /\ visited' = visited + 1
    /\ UNCHANGED << store, edits, phase, builds, order, nextLink, prevLink,
                    prevOrder, dirty, sameInput, page >>

\* Pre-order: a document takes the next sidebar position and is linked to the
\* document emitted before it.
VisitDoc ==
    /\ phase = "building"
    /\ stack # << >>
    /\ Head(stack).type = "doc"
    /\ LET d == Head(stack).id
           last == IF order = << >> THEN NoDoc ELSE order[Len(order)]
       IN /\ order' = Append(order, d)
          /\ prevLink' = [prevLink EXCEPT ![d] = last]
          /\ nextLink' = IF last = NoDoc THEN nextLink
                         ELSE [nextLink EXCEPT ![last] = d]
    /\ stack' = Tail(stack)
    /\ visited' = visited + 1
    /\ UNCHANGED << store, edits, phase, builds, prevOrder, dirty, sameInput,
                    page >>

\* The walk is over: the static content is generated.
FinishBuild ==
    /\ phase = "building"
    /\ stack = << >>
    /\ phase' = "built"
    /\ UNCHANGED << store, edits, builds, stack, visited, order, nextLink,
                    prevLink, prevOrder, dirty, sameInput, page >>

\* ------------------------------------------------------- navigation
\* The reader picks a document in the rendered sidebar.
OpenPage(d) ==
    /\ phase = "built"
    /\ \E i \in 1..Len(order) : order[i] = d
    /\ page # d
    /\ page' = d
    /\ UNCHANGED << store, edits, phase, builds, stack, visited, order,
                    nextLink, prevLink, prevOrder, dirty, sameInput >>

\* The reader follows the open document's "next" link.
ClickNext ==
    /\ phase = "built"
    /\ page # NoDoc
    /\ nextLink[page] # NoDoc
    /\ page' = nextLink[page]
    /\ UNCHANGED << store, edits, phase, builds, stack, visited, order,
                    nextLink, prevLink, prevOrder, dirty, sameInput >>

\* The reader follows the open document's "previous" link.
ClickPrevious ==
    /\ phase = "built"
    /\ page # NoDoc
    /\ prevLink[page] # NoDoc
    /\ page' = prevLink[page]
    /\ UNCHANGED << store, edits, phase, builds, stack, visited, order,
                    nextLink, prevLink, prevOrder, dirty, sameInput >>

\* ----------------------------------------------------- landing page
\* HomepageFeatures: the feature descriptors, in the order of the array.
FeatureList ==
    << [title |-> "Comprehensive Documentation",
        Svg |-> "undraw_docusaurus_mountain.svg",
        description |-> "Find everything you need in one place. Our documentation is designed to help you get started quickly and find answers to your questions."],
       [title |-> "Clear & Organized",
        Svg |-> "undraw_docusaurus_tree.svg",
        description |-> "Well-structured content that makes it easy to navigate and find what you're looking for. Focus on learning, not searching."],
       [title |-> "Modern & Fast",
        Svg |-> "undraw_docusaurus_react.svg",
        description |-> "Built with modern web technologies for a fast, responsive experience that works seamlessly across all devices."] >>

\* The columns of the grid one feature block spans: className 'col col--4'.
FeatureColumns == 4

\* A block twice as wide: className 'col col--6'.
FeatureHalfRow(item) ==
    [col |-> 6, svg |-> item.Svg, heading |-> item.title,
     paragraph |-> item.description]

\* Feature({title, Svg, description}): one column holding the icon, the title
\* as heading and the description as paragraph.
Feature(item) ==
    [col |-> FeatureColumns, svg |-> item.Svg, heading |-> item.title,
     paragraph |-> item.description]

\* A map that walks the list from its end.
HomepageFeaturesReversed ==
    << [i \in 1..Len(FeatureList) |->
           Feature(FeatureList[Len(FeatureList) + 1 - i])] >>

\* HomepageFeatures(): a single row holding FeatureList.map(Feature).
HomepageFeatures ==
    << [i \in 1..Len(FeatureList) |-> Feature(FeatureList[i])] >>

\* The reader opens the landing page of the built site.
RenderHomepage ==
    /\ phase = "built"
    /\ landing = << >>
    /\ landing' = HomepageFeatures
    /\ UNCHANGED << siteVars, lastPush, workflow, deployed, pipelineVars,
                 exampleVars >>

\* ------------------------------------------------------- deployment
\* Only pushes to main start the workflow.
DeployBranchesMainOnly == {"main"}

\* The branches whose pushes start the deployment workflow.
DeployBranches == {"main", "master"}

\* git push origin <branch>.
Push(branch) ==
    /\ workflow # "running"
    /\ lastPush' = branch
    /\ workflow' = IF branch \in DeployBranches THEN "running" ELSE workflow
    /\ UNCHANGED << siteVars, landing, deployed, pipelineVars,
                 exampleVars >>

\* The workflow run completes: the site is published on GitHub Pages.
CompleteWorkflow ==
    /\ workflow = "running"
    /\ workflow' = "completed"
    /\ deployed' = TRUE
    /\ UNCHANGED << siteVars, landing, lastPush, pipelineVars,
                 exampleVars >>

\* ------------------------------------------- security pipeline (PRs)
\* Branch names are paths: main is << "main" >>, release/1.0 is
\* << "release", "1.0" >>.
PrBranchesInclude == { << "main" >>, << "develop" >>, << "release", "*" >> }

\* A branch matches a pattern segment by segment; "*" matches any segment.
BranchMatches(branch, pattern) ==
    /\ Len(branch) = Len(pattern)
    /\ \A i \in 1..Len(pattern) : pattern[i] = "*" \/ pattern[i] = branch[i]

\* pr: branches: include.
PrTriggers(target) ==
    \E pattern \in PrBranchesInclude : BranchMatches(target, pattern)

\* Build.SourceBranch of a run started for a pull request.
BuildSourceBranch == "refs/pull/1/merge"

\* SecurityReport waiting for every scan but the secret scan.
DependsOnWithoutSecretDetection(j) ==
    IF j = "SecurityReport" THEN ScanJobs \ {"SecretDetection"} ELSE {}

\* dependsOn of a job; the scan jobs declare none.
DependsOn(j) ==
    IF j = "SecurityReport" THEN ScanJobs ELSE {}

Finished == {"succeeded", "failed", "skipped"}

\* The condition of a job. The default is succeeded(): every job it depends
\* on has succeeded. ContainerScanning adds that the run is not for main.
JobCondition(j) ==
    /\ \A d \in DependsOn(j) : job[d] = "succeeded"
    /\ j = "ContainerScanning" => BuildSourceBranch # "refs/heads/main"

\* The steps of job SecretDetection, in order.
SecretDetectionSteps ==
    << [displayName |-> "checkout", continueOnError |-> FALSE],
       [displayName |-> "Install Gitleaks", continueOnError |-> FALSE],
       [displayName |-> "Scan for Secrets", continueOnError |-> TRUE],
       [displayName |-> "Install TruffleHog", continueOnError |-> FALSE],
       [displayName |-> "Run TruffleHog Scan", continueOnError |-> TRUE],
       [displayName |-> "Publish Secret Scan Reports",
        continueOnError |-> FALSE],
       [displayName |-> "Validate No Secrets Found",
        continueOnError |-> FALSE] >>

\* if [ -s gitleaks-report.json ] && [ "$(cat gitleaks-report.json)" != "[]" ]
\* then exit 1: the exit code of the step's script.
ValidateNoSecretsFound(report) ==
    IF report # "absent" /\ report # "" /\ report # "[]" THEN 1 ELSE 0

\* Every push to main starts the pipeline.
CiTriggerMain == { << "main" >> }

\* trigger: none. No push starts the pipeline.
CiTrigger == { }

CiTriggers(branch) ==
    \E pattern \in CiTrigger : BranchMatches(branch, pattern)

\* A commit is pushed to `branch`, outside any pull request.
PushCommit(branch) ==
    /\ run = "none"
    /\ pr = NoPr
    /\ event' = "push"
    /\ run' = IF CiTriggers(branch) THEN "running" ELSE run
    /\ UNCHANGED << pr, job, step, gitleaksReport, trufflehogReport,
                    reportStep, reportFailed, comment >>
    /\ UNCHANGED << siteVars, pageVars, exampleVars >>

\* A pull request is opened against `target`. What the scanners would find in
\* it: gitleaks (g) and truffleHog (t) a secret, Snyk (s) an issue of severity
\* high or above, the policy input (p) a vulnerability of severity HIGH.
\* The pipeline runs if the target is included.
OpenPullRequest(target, g, t, s, p) ==
    /\ run = "none"
    /\ pr = NoPr
    /\ pr' = [target |-> target, gitleaks |-> g, trufflehog |-> t,
              snyk |-> s, policy |-> p]
    /\ event' = "pr"
    /\ run' = IF PrTriggers(target) THEN "running" ELSE run
    /\ UNCHANGED << job, step, gitleaksReport, trufflehogReport,
                    reportStep, reportFailed, comment >>
    /\ UNCHANGED << siteVars, pageVars, exampleVars >>

\* An agent picks up a job whose dependencies have all finished; the job is
\* skipped when its condition is false.
StartJob(j) ==
    /\ run = "running"
    /\ job[j] = "pending"
    /\ \A d \in DependsOn(j) : job[d] \in Finished
    /\ job' = [job EXCEPT ![j] = IF JobCondition(j) THEN "running"
                                 ELSE "skipped"]
    /\ step' = IF j = "SecretDetection" /\ JobCondition(j) THEN 1 ELSE step
    /\ reportStep' = IF j = "SecurityReport" /\ JobCondition(j)
                     THEN 1 ELSE reportStep
    /\ UNCHANGED << pr, run, gitleaksReport, trufflehogReport, event,
                    reportFailed, comment >>
    /\ UNCHANGED << siteVars, pageVars, exampleVars >>

\* task SnykSecurityScan@1 with severityThreshold 'high' and failOnIssues
\* true: the exit code, given whether Snyk found an issue at the threshold.
SnykSecurityScan(found) == IF found THEN 1 ELSE 0

\* `opa test ./policies ... || true`: the exit code of the script, given
\* whether a deny rule of security.rego holds.
RunCompliancePolicies(denied) == 0

\* A step of the job that cannot succeed for this pull request.
JobMustFail(j) ==
    \/ j = "DependencyScanning" /\ SnykSecurityScan(pr.snyk) # 0
    \/ j = "ComplianceCheck" /\ RunCompliancePolicies(pr.policy) # 0

\* The comment step left without a condition of its own.
SecurityReportStepsCommentOnSuccess ==
    << [displayName |-> "download secret-scan-reports",
        condition |-> "succeeded()"],
       [displayName |-> "download iac-scan-reports",
        condition |-> "succeeded()"],
       [displayName |-> "Generate Consolidated Report",
        condition |-> "succeeded()"],
       [displayName |-> "Publish Security Report",
        condition |-> "succeeded()"],
       [displayName |-> "Comment on PR", condition |-> "succeeded()"] >>

\* The steps of job SecurityReport, in order. A step without a condition
\* runs while no earlier step has failed.
SecurityReportSteps ==
    << [displayName |-> "download secret-scan-reports",
        condition |-> "succeeded()"],
       [displayName |-> "download iac-scan-reports",
        condition |-> "succeeded()"],
       [displayName |-> "Generate Consolidated Report",
        condition |-> "succeeded()"],
       [displayName |-> "Publish Security Report",
        condition |-> "succeeded()"],
       [displayName |-> "Comment on PR", condition |-> "always()"] >>

\* The body of the comment of task GitHubComment@0: the Scan Summary.
ScanSummary ==
    << [scan |-> "SAST Analysis", status |-> "Completed"],
       [scan |-> "Dependency Scanning", status |-> "Completed"],
       [scan |-> "Secret Detection", status |-> "Completed"],
       [scan |-> "IaC Security", status |-> "Completed"],
       [scan |-> "Container Scanning", status |-> "Completed"],
       [scan |-> "Compliance Check", status |-> "Completed"] >>

\* A scan job runs its steps to the end: it succeeds, or one of its steps
\* fails. (SecretDetection and SecurityReport run step by step, below.)
FinishJob(j, ok) ==
    /\ j \notin {"SecretDetection", "SecurityReport"}
    /\ job[j] = "running"
    /\ ok => ~JobMustFail(j)
    /\ job' = [job EXCEPT ![j] = IF ok THEN "succeeded" ELSE "failed"]
    /\ UNCHANGED << pr, run, step, gitleaksReport, trufflehogReport,
                    event, reportStep, reportFailed, comment >>
    /\ UNCHANGED << siteVars, pageVars, exampleVars >>

\* SecretDetection runs its next step. The two scans end with `|| true`, so
\* they exit 0 whatever they find; the other steps before the validation
\* succeed (ok) or fail; a failed step without continueOnError fails the job.
RunSecretDetectionStep(ok) ==
    /\ job["SecretDetection"] = "running"
    /\ step \in 1..Len(SecretDetectionSteps)
    /\ LET s == SecretDetectionSteps[step]
           exit ==
               CASE s.displayName = "Scan for Secrets" -> 0
                 [] s.displayName = "Run TruffleHog Scan" -> 0
                 [] s.displayName = "Validate No Secrets Found" ->
                        ValidateNoSecretsFound(gitleaksReport)
                 [] OTHER -> IF ok THEN 0 ELSE 1
           failed == exit # 0 /\ ~s.continueOnError
       IN /\ gitleaksReport' =
                 IF s.displayName = "Scan for Secrets"
                 THEN (IF pr.gitleaks THEN "findings" ELSE "[]")
                 ELSE gitleaksReport
          /\ trufflehogReport' =
                 IF s.displayName = "Run TruffleHog Scan"
                 THEN (IF pr.trufflehog THEN "findings" ELSE "")
                 ELSE trufflehogReport
          /\ job' = [job EXCEPT !["SecretDetection"] =
                        IF failed THEN "failed"
                        ELSE IF step = Len(SecretDetectionSteps)
                             THEN "succeeded" ELSE @]
          /\ step' = IF failed \/ step = Len(SecretDetectionSteps)
                     THEN 0 ELSE step + 1
    /\ UNCHANGED << pr, run, event, reportStep, reportFailed, comment >>
    /\ UNCHANGED << siteVars, pageVars, exampleVars >>

\* SecurityReport runs its next step, or skips it when its condition is
\* false. The step succeeds (ok) or fails; after the last step the job has
\* failed if one of its steps has.
RunSecurityReportStep(ok) ==
    /\ job["SecurityReport"] = "running"
    /\ reportStep \in 1..Len(SecurityReportSteps)
    /\ LET s == SecurityReportSteps[reportStep]
           runs == s.condition = "always()" \/ ~reportFailed
           last == reportStep = Len(SecurityReportSteps)
       IN /\ ~runs => ok
          /\ reportFailed' = (reportFailed \/ (runs /\ ~ok))
          /\ comment' =
                 IF s.displayName # "Comment on PR" THEN comment
                 ELSE IF ~runs THEN [step |-> "skipped", body |-> << >>]
                 ELSE IF ok THEN [step |-> "succeeded", body |-> ScanSummary]
                 ELSE [step |-> "failed", body |-> << >>]
          /\ reportStep' = IF last THEN 0 ELSE reportStep + 1
          /\ job' = [job EXCEPT !["SecurityReport"] =
                        IF ~last THEN @
                        ELSE IF reportFailed \/ (runs /\ ~ok)
                             THEN "failed" ELSE "succeeded"]
    /\ UNCHANGED << pr, run, step, gitleaksReport, trufflehogReport, event >>
    /\ UNCHANGED << siteVars, pageVars, exampleVars >>

\* Every job has finished: the run fails if a job failed.
CompleteRun ==
    /\ run = "running"
    /\ \A j \in JobNames : job[j] \in Finished
    /\ run' = IF \E j \in JobNames : job[j] = "failed"
              THEN "failed" ELSE "succeeded"
    /\ UNCHANGED << pr, job, step, gitleaksReport, trufflehogReport,
                    event, reportStep, reportFailed, comment >>
    /\ UNCHANGED << siteVars, pageVars, exampleVars >>

\* Pull requests validated by the security pipeline.
PipelineNext ==
    \/ \E target \in { << "main" >>, << "develop" >>, << "release", "1.0" >>,
                       << "feature", "x" >> } :
          \E g, t, s, p \in BOOLEAN : OpenPullRequest(target, g, t, s, p)
    \/ \E branch \in { << "main" >>, << "feature", "x" >> } : PushCommit(branch)
    \/ \E j \in JobNames : StartJob(j)
    \/ \E j \in JobNames : \E ok \in BOOLEAN : FinishJob(j, ok)
    \/ \E ok \in BOOLEAN : RunSecretDetectionStep(ok)
    \/ \E ok \in BOOLEAN : RunSecurityReportStep(ok)
    \/ CompleteRun

PipelineSpec == Init /\ [][PipelineNext]_vars

\* ------------------------------------------- PR validation script
\* A build still running has no finishTime: $null, written 0.
NullTime == 0

\* $null where a build is expected: every property of it is $null.
NullBuild == [finishTime |-> NullTime, status |-> "$null", result |-> "$null"]

\* The position of a build with the smallest (greatest) finishTime; $null is
\* below every time.
MinIndex(list) ==
    CHOOSE i \in 1..Len(list) :
        \A j \in 1..Len(list) : list[i].finishTime <= list[j].finishTime

MaxIndex(list) ==
    CHOOSE i \in 1..Len(list) :
        \A j \in 1..Len(list) : list[j].finishTime <= list[i].finishTime

Remove(list, i) ==
    [k \in 1..(Len(list) - 1) |-> IF k < i THEN list[k] ELSE list[k + 1]]

RECURSIVE SortObjectAscending(_)
\* Sort-Object -Property finishTime.
SortObjectAscending(list) ==
    IF list = << >> THEN << >>
    ELSE << list[MinIndex(list)] >>
            \o SortObjectAscending(Remove(list, MinIndex(list)))

RECURSIVE SortObjectDescending(_)
\* Sort-Object -Property finishTime -Descending.
SortObjectDescending(list) ==
    IF list = << >> THEN << >>
    ELSE << list[MaxIndex(list)] >>
            \o SortObjectDescending(Remove(list, MaxIndex(list)))

\* Select-Object -First 1: $null when nothing comes down the pipeline.
SelectFirst(list) ==
    IF list = << >> THEN NullBuild ELSE Head(list)

\* The script from "# Check if security pipeline passed" to its return.
ValidationScript(list) ==
    LET latestBuild == SelectFirst(SortObjectDescending(list))
    IN IF latestBuild.status = "completed" /\ latestBuild.result = "succeeded"
       THEN "$true" ELSE "$false"

\* A run of Security-Pipeline is queued for the source branch.
QueueBuild ==
    /\ validated = "none"
    /\ Len(apiBuilds) < MaxApiBuilds
    /\ apiBuilds' = Append(apiBuilds, [finishTime |-> NullTime,
                                       status |-> "inProgress",
                                       result |-> "$null"])
    /\ UNCHANGED << validated >>
    /\ UNCHANGED << siteVars, pageVars, pipelineVars, diagVars, notifyVars,
                    functionVars, aksVars >>

\* A queued run finishes, later than every run finished before it.
CompleteBuild(i, result) ==
    /\ validated = "none"
    /\ i \in 1..Len(apiBuilds)
    /\ apiBuilds[i].status = "inProgress"
    /\ apiBuilds' =
          [apiBuilds EXCEPT ![i] =
              [finishTime |-> apiBuilds[MaxIndex(apiBuilds)].finishTime + 1,
               status |-> "completed",
               result |-> result]]
    /\ UNCHANGED << validated >>
    /\ UNCHANGED << siteVars, pageVars, pipelineVars, diagVars, notifyVars,
                    functionVars, aksVars >>

\* The script is run for the pull request.
ValidatePullRequest ==
    /\ validated = "none"
    /\ validated' = ValidationScript(apiBuilds)
    /\ UNCHANGED << apiBuilds >>
    /\ UNCHANGED << siteVars, pageVars, pipelineVars, diagVars, notifyVars,
                    functionVars, aksVars >>

ValidationNext ==
    \/ QueueBuild
    \/ \E i \in 1..MaxApiBuilds :
          \E result \in {"succeeded", "partiallySucceeded", "failed"} :
             CompleteBuild(i, result)
    \/ ValidatePullRequest

ValidationSpec == Init /\ [][ValidationNext]_vars

\* ------------------------------------------------- BLEDiagnostics
\* Strings the code compares are sequences of characters.
UpperCase ==
    << "A", "B", "C", "D", "E", "F", "G", "H", "I", "J", "K", "L", "M",
       "N", "O", "P", "Q", "R", "S", "T", "U", "V", "W", "X", "Y", "Z" >>

LowerCase ==
    << "a", "b", "c", "d", "e", "f", "g", "h", "i", "j", "k", "l", "m",
       "n", "o", "p", "q", "r", "s", "t", "u", "v", "w", "x", "y", "z" >>

\* str.lower().
Lower(str) ==
    [i \in 1..Len(str) |->
        IF \E k \in 1..Len(UpperCase) : UpperCase[k] = str[i]
        THEN LowerCase[CHOOSE k \in 1..Len(UpperCase) : UpperCase[k] = str[i]]
        ELSE str[i]]

\* needle in hay.
In(needle, hay) ==
    \E k \in 0..(Len(hay) - Len(needle)) :
        SubSeq(hay, k + 1, k + Len(needle)) = needle

\* device_name="Chorus BLE".
DeviceName == << "C", "h", "o", "r", "u", "s", " ", "B", "L", "E" >>

\* Devices that may advertise near the tool.
NearbyDevices ==
    { [name |-> << "C", "h", "o", "r", "u", "s", " ", "B", "L", "E" >>,
       address |-> "C0:01"],
      [name |-> << "C", "H", "O", "R", "U", "S", " ", "B", "L", "E",
                   "-", "2" >>,
       address |-> "C0:02"],
      [name |-> << "C", "h", "o", "r", "u", "s" >>, address |-> "0B:03"] }

None == [name |-> << >>, address |-> "None"]

RECURSIVE scan_for_device(_)
\* The loop of scan_for_device over the discovered devices: the first device
\* whose name holds the device name, case ignored, or None.
scan_for_device(devices) ==
    IF devices = << >> THEN None
    ELSE IF In(Lower(DeviceName), Lower(Head(devices).name))
         THEN Head(devices)
         ELSE scan_for_device(Tail(devices))

\* run_full_diagnostic after step 1, had it no `return False`.
AfterScanContinue(device) == "test_connection"

\* run_full_diagnostic after step 1: `if not device: return False`.
AfterScan(device) ==
    IF device = None THEN "return False" ELSE "test_connection"

\* run_full_diagnostic after step 2:
\* `if not await self.test_connection(): return False`.
AfterConnection(ok) ==
    IF ~ok THEN "return False" ELSE "discover_services"

\* run_full_diagnostic is called.
StartDiagnostic ==
    /\ diagPc = "idle"
    /\ notifyPc \in {"idle", "returned"}
    /\ diagPc' = "scan_for_device"
    /\ UNCHANGED << nearby, device_address, diagTrace, diagResult >>
    /\ UNCHANGED notifyVars
    /\ UNCHANGED << siteVars, pageVars, pipelineVars, scriptVars,
                    functionVars, aksVars >>

\* Step 1: BleakScanner.discover returns `devices`; scan_for_device sets
\* device_address when it finds the device.
ScanStep(devices) ==
    /\ diagPc = "scan_for_device"
    /\ nearby' = devices
    /\ LET device == scan_for_device(devices)
       IN /\ device_address' =
                 IF device = None THEN device_address ELSE device.address
          /\ diagTrace' = Append(diagTrace, [call |-> "scan_for_device",
                                             returned |-> device.address])
          /\ diagPc' = AfterScan(device)
    /\ UNCHANGED << diagResult >>
    /\ UNCHANGED notifyVars
    /\ UNCHANGED << siteVars, pageVars, pipelineVars, scriptVars,
                    functionVars, aksVars >>

\* Step 2: test_connection. Without an address it returns False; otherwise
\* the connection is made (True) or raises (False).
ConnectionStep(connects) ==
    /\ diagPc = "test_connection"
    /\ LET ok == device_address # "None" /\ connects
       IN /\ device_address = "None" => ~connects
          /\ diagTrace' = Append(diagTrace, [call |-> "test_connection",
                                             returned |-> IF ok THEN "True"
                                                          ELSE "False"])
          /\ diagPc' = AfterConnection(ok)
    /\ UNCHANGED << nearby, device_address, diagResult >>
    /\ UNCHANGED notifyVars
    /\ UNCHANGED << siteVars, pageVars, pipelineVars, scriptVars,
                    functionVars, aksVars >>

\* Step 3: discover_services returns the services, an empty dict, or None
\* after an exception; run_full_diagnostic goes on to `return True`.
DiscoverStep(services) ==
    /\ diagPc = "discover_services"
    /\ diagTrace' = Append(diagTrace, [call |-> "discover_services",
                                       returned |-> services])
    /\ diagPc' = "return True"
    /\ UNCHANGED << nearby, device_address, diagResult >>
    /\ UNCHANGED notifyVars
    /\ UNCHANGED << siteVars, pageVars, pipelineVars, scriptVars,
                    functionVars, aksVars >>

\* run_full_diagnostic returns.
ReturnDiagnostic ==
    /\ diagPc \in {"return True", "return False"}
    /\ diagResult' = IF diagPc = "return True" THEN "True" ELSE "False"
    /\ diagPc' = "returned"
    /\ UNCHANGED << nearby, device_address, diagTrace >>
    /\ UNCHANGED notifyVars
    /\ UNCHANGED << siteVars, pageVars, pipelineVars, scriptVars,
                    functionVars, aksVars >>

\* test_notifications after the wait, had the inner try no `finally` on the
\* timeout path.
AfterWaitNoFinally(outcome) ==
    IF outcome = "timeout" THEN "close" ELSE "stop_notify"

\* test_notifications after the wait: `finally: await client.stop_notify`.
AfterWait(outcome) == "stop_notify"

\* test_notifications(char_uuid) is called: without a device address it
\* returns False at once.
CallTestNotifications(uuid) ==
    /\ notifyPc = "idle"
    /\ diagPc \in {"idle", "returned"}
    /\ char_uuid' = uuid
    /\ notifyPending' = "False"
    /\ notifyPc' = IF device_address = "None" THEN "return" ELSE "connect"
    /\ UNCHANGED << notifyTrace, notifyResult >>
    /\ UNCHANGED diagVars
    /\ UNCHANGED << siteVars, pageVars, pipelineVars, scriptVars,
                    functionVars, aksVars >>

\* `async with BleakClient(...)`: the client connects, or raises and the
\* outer `except` returns False.
NotifyConnect(ok) ==
    /\ notifyPc = "connect"
    /\ notifyTrace' = Append(notifyTrace,
                             [op |-> "connect", char |-> char_uuid, ok |-> ok])
    /\ notifyPc' = IF ok THEN "start_notify" ELSE "return"
    /\ UNCHANGED << char_uuid, notifyPending, notifyResult >>
    /\ UNCHANGED diagVars
    /\ UNCHANGED << siteVars, pageVars, pipelineVars, scriptVars,
                    functionVars, aksVars >>

\* client.start_notify(char_uuid, handler): if it raises, the client is
\* closed and the outer `except` returns False.
StartNotify(ok) ==
    /\ notifyPc = "start_notify"
    /\ notifyTrace' = Append(notifyTrace,
                             [op |-> "start_notify", char |-> char_uuid,
                              ok |-> ok])
    /\ notifyPc' = IF ok THEN "wait" ELSE "close"
    /\ UNCHANGED << char_uuid, notifyPending, notifyResult >>
    /\ UNCHANGED diagVars
    /\ UNCHANGED << siteVars, pageVars, pipelineVars, scriptVars,
                    functionVars, aksVars >>

\* asyncio.wait_for(notification_received.wait(), timeout=10): the
\* notification arrives (return True) or the wait times out (return False).
WaitForNotification(outcome) ==
    /\ notifyPc = "wait"
    /\ notifyTrace' = Append(notifyTrace,
                             [op |-> outcome, char |-> char_uuid, ok |-> TRUE])
    /\ notifyPending' = IF outcome = "notification" THEN "True" ELSE "False"
    /\ notifyPc' = AfterWait(outcome)
    /\ UNCHANGED << char_uuid, notifyResult >>
    /\ UNCHANGED diagVars
    /\ UNCHANGED << siteVars, pageVars, pipelineVars, scriptVars,
                    functionVars, aksVars >>

\* client.stop_notify(char_uuid) in the `finally`: if it raises, the outer
\* `except` returns False in place of the pending return value.
StopNotify(ok) ==
    /\ notifyPc = "stop_notify"
    /\ notifyTrace' = Append(notifyTrace,
                             [op |-> "stop_notify", char |-> char_uuid,
                              ok |-> ok])
    /\ notifyPending' = IF ok THEN notifyPending ELSE "False"
    /\ notifyPc' = "close"
    /\ UNCHANGED << char_uuid, notifyResult >>
    /\ UNCHANGED diagVars
    /\ UNCHANGED << siteVars, pageVars, pipelineVars, scriptVars,
                    functionVars, aksVars >>

\* The `async with` block is left: the client disconnects.
CloseClient ==
    /\ notifyPc = "close"
    /\ notifyTrace' = Append(notifyTrace,
                             [op |-> "close", char |-> char_uuid, ok |-> TRUE])
    /\ notifyPc' = "return"
    /\ UNCHANGED << char_uuid, notifyPending, notifyResult >>
    /\ UNCHANGED diagVars
    /\ UNCHANGED << siteVars, pageVars, pipelineVars, scriptVars,
                    functionVars, aksVars >>

\* test_notifications returns.
ReturnNotifications ==
    /\ notifyPc = "return"
    /\ notifyResult' = notifyPending
    /\ notifyPc' = "returned"
    /\ UNCHANGED << char_uuid, notifyTrace, notifyPending >>
    /\ UNCHANGED diagVars
    /\ UNCHANGED << siteVars, pageVars, pipelineVars, scriptVars,
                    functionVars, aksVars >>

\* The diagnostic tool used against the devices nearby.
BleNext ==
    \/ StartDiagnostic
    \/ \E devices \in UNION { [1..n -> NearbyDevices] : n \in 0..MaxNearby } :
          ScanStep(devices)
    \/ \E connects \in BOOLEAN : ConnectionStep(connects)
    \/ \E services \in {"services", "{}", "None"} : DiscoverStep(services)
    \/ ReturnDiagnostic
    \/ \E uuid \in {"2A37", "2A19"} : CallTestNotifications(uuid)
    \/ \E ok \in BOOLEAN : NotifyConnect(ok)
    \/ \E ok \in BOOLEAN : StartNotify(ok)
    \/ \E outcome \in {"notification", "timeout"} : WaitForNotification(outcome)
    \/ \E ok \in BOOLEAN : StopNotify(ok)
    \/ CloseClient
    \/ ReturnNotifications

BleSpec == Init /\ [][BleNext]_vars

\* ------------------------------------------- Azure Functions scripts
\* The value $null, and a returned collection. PowerShell unrolls a returned
\* array: an empty one reaches the caller as $null.
Null == [null |-> TRUE, items |-> << >>]

Return(items) ==
    IF items = << >> THEN Null ELSE [null |-> FALSE, items |-> items]

\* The functions a Function App may hold.
AppFunctions ==
    { [name |-> << "G", "e", "t", "A", "p", "i" >>, type |-> "HttpTrigger"],
      [name |-> << "C", "l", "e", "a", "n" >>, type |-> "TimerTrigger"] }

\* A `catch` block that throws the error on to the caller.
CatchRethrow(result) == result

\* try { ... } catch { Write-Error ...; return $null }: a terminating error
\* in the body becomes the return value $null.
Catch(result) ==
    IF result.raised THEN [raised |-> FALSE, value |-> Null] ELSE result

\* Get-AzureFunctionAppFunctions against Azure as `env` describes it: the
\* Function App is found or not, the token and the REST call succeed or
\* throw, and the response lists env.functions.
GetAzureFunctionAppFunctions(env) ==
    Catch(IF ~env.app \/ ~env.token \/ ~env.rest
          THEN [raised |-> TRUE, value |-> Null]
          ELSE [raised |-> FALSE, value |-> Return(env.functions)])

RECURSIVE WhereNameLike(_, _)
\* Where-Object { $_.name -like "*$NamePattern*" }.
WhereNameLike(items, pattern) ==
    IF items = << >> THEN << >>
    ELSE IF In(Lower(pattern), Lower(Head(items).name))
         THEN << Head(items) >> \o WhereNameLike(Tail(items), pattern)
         ELSE WhereNameLike(Tail(items), pattern)

RECURSIVE WhereTrigger(_, _)
\* The loop that keeps the functions having a trigger binding of the type.
WhereTrigger(items, functionType) ==
    IF items = << >> THEN << >>
    ELSE IF Head(items).type = functionType
         THEN << Head(items) >> \o WhereTrigger(Tail(items), functionType)
         ELSE WhereTrigger(Tail(items), functionType)

\* Get-AzureFunctionAppFunctionsByPattern: $_.name -like "*$NamePattern*".
GetAzureFunctionAppFunctionsByPattern(env, pattern) ==
    LET allFunctions == GetAzureFunctionAppFunctions(env)
    IN Catch(IF allFunctions.raised THEN allFunctions
             ELSE IF allFunctions.value.null
                  THEN [raised |-> FALSE, value |-> Null]
                  ELSE [raised |-> FALSE,
                        value |-> Return(WhereNameLike(
                                             allFunctions.value.items,
                                             pattern))])

\* Get-AzureFunctionAppFunctionsByType: the functions with a trigger binding
\* of the given type.
GetAzureFunctionAppFunctionsByType(env, functionType) ==
    LET allFunctions == GetAzureFunctionAppFunctions(env)
    IN Catch(IF allFunctions.raised THEN allFunctions
             ELSE IF allFunctions.value.null
                  THEN [raised |-> FALSE, value |-> Null]
                  ELSE IF ~env.token
                       THEN [raised |-> TRUE, value |-> Null]
                       ELSE [raised |-> FALSE,
                             value |-> Return(WhereTrigger(
                                                  allFunctions.value.items,
                                                  functionType))])

\* Export-AzureFunctionAppFunctionsToCSV: the rows written to $OutputPath,
\* or "absent" when Export-Csv is not reached.
ExportAzureFunctionAppFunctionsToCSV(env) ==
    LET allFunctions == GetAzureFunctionAppFunctions(env)
    IN IF allFunctions.raised
       THEN [raised |-> TRUE, file |-> "absent", rows |-> << >>]
       ELSE IF allFunctions.value.null
            THEN [raised |-> FALSE, file |-> "absent", rows |-> << >>]
            ELSE [raised |-> FALSE, file |-> "written",
                  rows |-> [i \in 1..Len(allFunctions.value.items) |->
                               [FunctionName |->
                                    allFunctions.value.items[i].name,
                                Type |-> allFunctions.value.items[i].type]]]

NoCall == [function |-> "none", raised |-> FALSE, value |-> Null]

\* The state of Azure changes: the Function App, the token service, the
\* management API and the functions deployed.
SetAzure(env) ==
    /\ call = NoCall
    /\ azure' = env
    /\ UNCHANGED << call, csv >>
    /\ UNCHANGED << siteVars, pageVars, pipelineVars, scriptVars,
                    diagVars, notifyVars, aksVars >>

CallGetFunctions ==
    /\ call = NoCall
    /\ call' = [function |-> "Get-AzureFunctionAppFunctions"]
                  @@ GetAzureFunctionAppFunctions(azure)
    /\ UNCHANGED << azure, csv >>
    /\ UNCHANGED << siteVars, pageVars, pipelineVars, scriptVars,
                    diagVars, notifyVars, aksVars >>

CallGetFunctionsByPattern(pattern) ==
    /\ call = NoCall
    /\ call' = [function |-> "Get-AzureFunctionAppFunctionsByPattern"]
                  @@ GetAzureFunctionAppFunctionsByPattern(azure, pattern)
    /\ UNCHANGED << azure, csv >>
    /\ UNCHANGED << siteVars, pageVars, pipelineVars, scriptVars,
                    diagVars, notifyVars, aksVars >>

CallGetFunctionsByType(functionType) ==
    /\ call = NoCall
    /\ call' = [function |-> "Get-AzureFunctionAppFunctionsByType"]
                  @@ GetAzureFunctionAppFunctionsByType(azure, functionType)
    /\ UNCHANGED << azure, csv >>
    /\ UNCHANGED << siteVars, pageVars, pipelineVars, scriptVars,
                    diagVars, notifyVars, aksVars >>

CallExport ==
    /\ call = NoCall
    /\ LET export == Catch([raised |->
                               ExportAzureFunctionAppFunctionsToCSV(azure).raised,
                            value |-> Null])
           exported == ExportAzureFunctionAppFunctionsToCSV(azure)
       IN /\ call' = [function |-> "Export-AzureFunctionAppFunctionsToCSV"]
                        @@ export
          /\ csv' = [file |-> exported.file, rows |-> exported.rows]
    /\ UNCHANGED << azure >>
    /\ UNCHANGED << siteVars, pageVars, pipelineVars, scriptVars,
                    diagVars, notifyVars, aksVars >>

FunctionsNext ==
    \/ \E app, token, rest \in BOOLEAN :
          \E functions \in UNION { [1..n -> AppFunctions] :
                                      n \in 0..MaxFunctions } :
             SetAzure([app |-> app, token |-> token, rest |-> rest,
                       functions |-> functions])
    \/ CallGetFunctions
    \/ \E pattern \in { << "a", "p", "i" >>, << "x" >> } :
          CallGetFunctionsByPattern(pattern)
    \/ \E functionType \in {"HttpTrigger", "TimerTrigger", "QueueTrigger"} :
          CallGetFunctionsByType(functionType)
    \/ CallExport

FunctionsSpec == Init /\ [][FunctionsNext]_vars

\* ------------------------------------------------ AKS configuration
\* default_node_pool: node_count (var.node_count), min_count, max_count.
DefaultNodeCount == 3
DefaultMinCount == 1
DefaultMaxCount == 10

\* azurerm_kubernetes_cluster_node_pool.gpu.
GpuNodeCount == 1
GpuMinCount == 0
GpuMaxCount == 5

\* A manual scale target above the pool's max_count.
ManualNodeCountAboveMax == DefaultMaxCount + 2

\* az aks nodepool scale --name default --node-count.
ManualNodeCount == 5

\* Deployment sample-app: replicas; HorizontalPodAutoscaler sample-app-hpa:
\* minReplicas, maxReplicas.
Replicas == 3
MinReplicas == 2
MaxReplicas == 10

NodePools == {"default", "gpunodepool"}

MinCount(pool) == IF pool = "default" THEN DefaultMinCount ELSE GpuMinCount

MaxCount(pool) == IF pool = "default" THEN DefaultMaxCount ELSE GpuMaxCount

\* A count brought into [lo, hi].
Clamp(n, lo, hi) == IF n < lo THEN lo ELSE IF n > hi THEN hi ELSE n

\* enable_auto_scaling = true: the cluster autoscaler resizes a pool to the
\* nodes the workload wants, within min_count and max_count.
ClusterAutoscaler(pool, wanted) ==
    /\ nodes' = [nodes EXCEPT ![pool] =
                    Clamp(wanted, MinCount(pool), MaxCount(pool))]
    /\ UNCHANGED << replicas >>
    /\ UNCHANGED << siteVars, pageVars, pipelineVars, scriptVars,
                    diagVars, notifyVars, functionVars >>

\* Manual Scaling: az aks nodepool scale on the default pool.
ManualScale ==
    /\ nodes' = [nodes EXCEPT !["default"] = ManualNodeCount]
    /\ UNCHANGED << replicas >>
    /\ UNCHANGED << siteVars, pageVars, pipelineVars, scriptVars,
                    diagVars, notifyVars, functionVars >>

\* The HorizontalPodAutoscaler sets the replicas of sample-app to the count
\* the CPU utilization asks for, within minReplicas and maxReplicas.
HorizontalPodAutoscaler(desired) ==
    /\ replicas' = Clamp(desired, MinReplicas, MaxReplicas)
    /\ UNCHANGED << nodes >>
    /\ UNCHANGED << siteVars, pageVars, pipelineVars, scriptVars,
                    diagVars, notifyVars, functionVars >>

AksNext ==
    \/ \E pool \in NodePools : \E wanted \in 0..MaxWanted :
          ClusterAutoscaler(pool, wanted)
    \/ ManualScale
    \/ \E desired \in 0..MaxWanted : HorizontalPodAutoscaler(desired)

AksSpec == Init /\ [][AksNext]_vars

Next ==
    \/ /\ UNCHANGED << pageVars, pipelineVars, exampleVars >>
       /\ \E d \in DOMAIN store :
             \E fm \in {MissingPosition, InvalidPosition, ShippedStore[d]} :
                EditFrontMatter(d, fm)
    \/ StartBuild /\ UNCHANGED << pageVars, pipelineVars, exampleVars >>
    \/ VisitCategory /\ UNCHANGED << pageVars, pipelineVars, exampleVars >>
    \/ VisitDoc /\ UNCHANGED << pageVars, pipelineVars, exampleVars >>
    \/ FinishBuild /\ UNCHANGED << pageVars, pipelineVars, exampleVars >>
    \/ (\E d \in DOMAIN store : OpenPage(d)) /\ UNCHANGED << pageVars, pipelineVars, exampleVars >>
    \/ ClickNext /\ UNCHANGED << pageVars, pipelineVars, exampleVars >>
    \/ ClickPrevious /\ UNCHANGED << pageVars, pipelineVars, exampleVars >>
    \/ RenderHomepage

Spec == Init /\ [][Next]_vars

\* The shipped site pushed, built and deployed: no front-matter is edited.
DeployNext ==
    \/ \E b \in {"main", "master", "feature"} : Push(b)
    \/ CompleteWorkflow
    \/ StartBuild /\ UNCHANGED << pageVars, pipelineVars, exampleVars >>
    \/ VisitCategory /\ UNCHANGED << pageVars, pipelineVars, exampleVars >>
    \/ VisitDoc /\ UNCHANGED << pageVars, pipelineVars, exampleVars >>
    \/ FinishBuild /\ UNCHANGED << pageVars, pipelineVars, exampleVars >>
    \/ RenderHomepage

DeploySpec == Init /\ [][DeployNext]_vars

\* ============================================================ claims

\* C1: a completed pre-order walk of tutorialSidebar yields exactly intro,
\* aks-terraform-deployment, azure-functions-powershell,
\* bluetooth-ble-troubleshooting, azure-devops-security-pipeline,
\* organizational-structure, in that order and nothing else.
C1_TraversalOrder ==
    phase = "built" =>
        order = << "Ariba DevOps/intro",
                   "Ariba DevOps/aks-terraform-deployment",
                   "Ariba DevOps/azure-functions-powershell",
                   "Ariba DevOps/bluetooth-ble-troubleshooting",
                   "Ariba DevOps/azure-devops-security-pipeline",
                   "CN Org Structure/organizational-structure" >>

C1_Witness ==
    /\ phase = "built"
    /\ Len(order) = 6
    /\ order[1] = "Ariba DevOps/intro"
    /\ order[6] = "CN Org Structure/organizational-structure"

\* C2: the walk never emits a document twice, and when it is over every
\* referenced document path has been emitted exactly once (and no other).
C2_VisitedExactlyOnce ==
    /\ \A d \in Range(order) : Occurrences(order, d) = 1
    /\ Range(order) \subseteq ReferencedPaths
    /\ phase = "built" =>
          \A d \in ReferencedPaths : Occurrences(order, d) = 1

C2_Witness ==
    /\ phase = "built"
    /\ ReferencedPaths # {}
    /\ Range(order) = ReferencedPaths
    /\ Len(order) = Cardinality(ReferencedPaths)

\* C3: every reference of the configuration resolves: a document path names a
\* document of the Content Store and a category reference names a category;
\* so does every path the walk has emitted.
C3_ReferencesResolve ==
    /\ ReferencedPaths \subseteq DOMAIN store
    /\ \A r \in RefsWithin(tutorialSidebar, MaxDepth) :
          r.type = "category" => r.id \in Categories
    /\ Range(order) \subseteq DOMAIN store

C3_Witness ==
    /\ phase = "building"
    /\ order # << >>
    /\ order[Len(order)] = "CN Org Structure/organizational-structure"
    /\ order[Len(order)] \in DOMAIN store

\* C7: the Navigation Tree has no cycle, and the walk terminates: the visits
\* made plus the visits the stack still takes are the visits of the whole tree,
\* so each visit brings the walk one step nearer its end.
C7_FiniteTree ==
    /\ Acyclic
    /\ phase = "building" =>
          visited + Visits(stack, MaxDepth) = Visits(tutorialSidebar, MaxDepth)
    /\ phase = "built" =>
          /\ stack = << >>
          /\ visited = Visits(tutorialSidebar, MaxDepth)

C7_Witness ==
    /\ phase = "built"
    /\ visited = 8
    /\ Acyclic

\* C8: in the built site the next/previous links join consecutive documents of
\* the walk, also across the category boundary (azure-devops-security-pipeline
\* to organizational-structure); the first document has no previous and the
\* last has no next.
C8_PrevNextFollowTraversal ==
    phase = "built" =>
        /\ \A i \in 1..(Len(order) - 1) :
              /\ nextLink[order[i]] = order[i + 1]
              /\ prevLink[order[i + 1]] = order[i]
        /\ order # << >> =>
              /\ prevLink[order[1]] = NoDoc
              /\ nextLink[order[Len(order)]] = NoDoc
        /\ nextLink["Ariba DevOps/azure-devops-security-pipeline"]
              = "CN Org Structure/organizational-structure"
        /\ prevLink["CN Org Structure/organizational-structure"]
              = "Ariba DevOps/azure-devops-security-pipeline"

C8_Witness ==
    /\ phase = "built"
    /\ page = "CN Org Structure/organizational-structure"
    /\ prevLink[page] = "Ariba DevOps/azure-devops-security-pipeline"
    /\ nextLink[prevLink[page]] = page

C12_OneBlockPerFeature ==
    landing # << >> =>
        \A r \in 1..Len(landing) :
            /\ Len(landing[r]) = Len(FeatureList)
            /\ \A i \in 1..Len(FeatureList) :
                  /\ landing[r][i].heading = FeatureList[i].title
                  /\ landing[r][i].svg = FeatureList[i].Svg
                  /\ landing[r][i].paragraph = FeatureList[i].description

C12_Witness ==
    /\ landing # << >>
    /\ Len(landing[1]) = 3
    /\ landing[1][1].heading = "Comprehensive Documentation"
    /\ landing[1][2].heading = "Clear & Organized"
    /\ landing[1][3].svg = "undraw_docusaurus_react.svg"

\* C13: the landing page is three columns: FeatureList has exactly three
\* entries, all rendered in one row, each block 4 columns wide, which together
\* fill the 12 columns of the grid.
C13_ThreeColumnLayout ==
    /\ Len(FeatureList) = 3
    /\ \A i \in 1..Len(FeatureList) :
          DOMAIN FeatureList[i] = {"title", "Svg", "description"}
    /\ landing # << >> =>
          /\ Len(landing) = 1
          /\ Len(landing[1]) = 3
          /\ \A i \in 1..Len(landing[1]) : landing[1][i].col = 4
          /\ landing[1][1].col + landing[1][2].col + landing[1][3].col = 12

C13_Witness ==
    /\ landing # << >>
    /\ Len(landing) = 1
    /\ landing[1][1].col + landing[1][2].col + landing[1][3].col = 12

C16_FrontMatterHasPosition ==
    /\ \A d \in DOMAIN ShippedStore :
          /\ ShippedStore[d].kind = "int"
          /\ ShippedStore[d].n \in Int
    /\ edits = 0 => \A d \in DOMAIN store : store[d].kind = "int"

C16_Witness ==
    /\ phase = "building"
    /\ edits = 0
    /\ order # << >>
    /\ store[order[Len(order)]].kind = "int"
    /\ store[order[Len(order)]].n = 5

C18_PositionsAgreeWithSidebar ==
    LET positions(items) ==
            [i \in 1..Len(items) |-> store[items[i].id].n]
    IN edits = 0 =>
          /\ positions(CategoryItems("Ariba DevOps")) = << 1, 2, 3, 4, 5 >>
          /\ positions(CategoryItems("CN Org Structure")) = << 1 >>
          /\ \A c \in Categories :
                /\ \A i, j \in 1..Len(CategoryItems(c)) :
                      i < j => positions(CategoryItems(c))[i]
                                  < positions(CategoryItems(c))[j]
                /\ CategoryItemsAutogenerated(c) = CategoryItems(c)

C18_Witness ==
    /\ phase = "built"
    /\ edits = 0
    /\ Len(order) = 6
    /\ \A i \in 1..5 : store[order[i]].n = i
    /\ store[order[6]].n = 1

\* C19: the SecurityReport job starts only after all six scan jobs have
\* finished: while it runs, and after it has run, no scan job is pending or
\* running.
C19_ReportAfterAllScans ==
    job["SecurityReport"] \in {"running", "succeeded", "failed"} =>
        \A j \in ScanJobs : job[j] \in Finished

C19_Witness ==
    /\ job["SecurityReport"] = "running"
    /\ \A j \in ScanJobs : job[j] = "succeeded"

\* C20: whenever a secret scan of the SecretDetection job has found a secret,
\* the job ends in failure (and with it the run, which blocks the PR).
C20_DetectedSecretFailsJob ==
    ( /\ gitleaksReport = "findings" \/ trufflehogReport = "findings"
      /\ job["SecretDetection"] \in Finished )
    => job["SecretDetection"] = "failed"

\* C21: a pull request with a high-severity vulnerability (reported by Snyk,
\* or present in the input of the policy that denies such pull requests) is
\* denied: its pipeline run does not end as succeeded.
C21_HighSeverityDenied ==
    (pr.snyk \/ pr.policy) => run # "succeeded"

\* C22: the pipeline runs only for a pull request whose target is main,
\* develop or release/*: a push never starts it, nor does a pull request to
\* another branch.
C22_RunsOnlyOnIncludedPr ==
    /\ run # "none" =>
          /\ event = "pr"
          /\ \/ pr.target = << "main" >>
             \/ pr.target = << "develop" >>
             \/ Len(pr.target) = 2 /\ pr.target[1] = "release"
    /\ event = "push" => run = "none" /\ \A j \in JobNames : job[j] = "pending"

C22_Witness ==
    /\ event = "pr"
    /\ pr.target = << "release", "1.0" >>
    /\ run = "succeeded"

\* C23: whenever the SecurityReport job has run, its step 'Comment on PR' has
\* run, also after an earlier step of the job failed, and the comment it
\* posted lists all six scans as Completed whatever the scanners found.
C23_CommentAlwaysPosted ==
    job["SecurityReport"] \in {"succeeded", "failed"} =>
        /\ comment.step \in {"succeeded", "failed"}
        /\ comment.step = "succeeded" =>
              /\ Len(comment.body) = 6
              /\ \A i \in 1..6 : comment.body[i].status = "Completed"
              /\ { comment.body[i].scan : i \in 1..6 } =
                    {"SAST Analysis", "Dependency Scanning",
                     "Secret Detection", "IaC Security",
                     "Container Scanning", "Compliance Check"}

C23_Witness ==
    /\ job["SecurityReport"] = "failed"
    /\ reportFailed
    /\ comment.step = "succeeded"
    /\ Len(comment.body) = 6
    /\ pr.trufflehog /\ pr.policy

\* C24: the PR validation script returns $true exactly when the build with
\* the latest finishTime is completed and succeeded, and $false otherwise,
\* also when there is no build.
C24_ValidationFollowsLatestBuild ==
    validated # "none" =>
        /\ validated \in {"$true", "$false"}
        /\ validated = "$true" <=>
              \E i \in 1..Len(apiBuilds) :
                 /\ apiBuilds[i].finishTime # NullTime
                 /\ \A j \in 1..Len(apiBuilds) :
                       apiBuilds[j].finishTime <= apiBuilds[i].finishTime
                 /\ apiBuilds[i].status = "completed"
                 /\ apiBuilds[i].result = "succeeded"
        /\ apiBuilds = << >> => validated = "$false"

C24_Witness ==
    /\ validated = "$true"
    /\ Len(apiBuilds) = 3
    /\ apiBuilds[1].result = "succeeded"
    /\ apiBuilds[2].result = "failed"
    /\ apiBuilds[3].status = "inProgress"
    /\ apiBuilds[2].finishTime < apiBuilds[1].finishTime

\* C25: run_full_diagnostic runs scan, connection test and service discovery
\* in that order; it returns False without running a later step when the scan
\* finds no matching device or the connection test fails, and returns True
\* only if the scan found the device and the connection test succeeded.
C25_DiagnosticStepsInOrder ==
    LET steps == << "scan_for_device", "test_connection",
                    "discover_services" >>
        n == Len(diagTrace)
    IN /\ n <= 3
       /\ \A i \in 1..n : diagTrace[i].call = steps[i]
       /\ diagResult # "none" =>
             /\ (n >= 1 /\ diagTrace[1].returned = "None")
                   => diagResult = "False" /\ n = 1
             /\ (n >= 2 /\ diagTrace[2].returned = "False")
                   => diagResult = "False" /\ n = 2
             /\ diagResult = "True" =>
                   /\ n = 3
                   /\ diagTrace[1].returned # "None"
                   /\ diagTrace[2].returned = "True"
             /\ diagResult = "False" =>
                   \/ n = 1 /\ diagTrace[1].returned = "None"
                   \/ n = 2 /\ diagTrace[2].returned = "False"
       /\ (n >= 1 /\ diagTrace[1].returned = "None") =>
             ~ \E d \in Range(nearby) : In(Lower(DeviceName), Lower(d.name))

C25_Witness ==
    /\ diagResult = "False"
    /\ Len(diagTrace) = 2
    /\ diagTrace[1].returned = "C0:02"
    /\ diagTrace[2].returned = "False"
    /\ Len(nearby) = 2

\* C26: in test_notifications every start_notify that succeeded is followed
\* by stop_notify on the same characteristic before the client is closed,
\* after a notification (return True) as well as after a timeout (return
\* False).
C26_StopNotifyBeforeClose ==
    /\ \A i \in 1..Len(notifyTrace) :
          (notifyTrace[i].op = "start_notify" /\ notifyTrace[i].ok) =>
             \A k \in (i + 1)..Len(notifyTrace) :
                notifyTrace[k].op = "close" =>
                   \E j \in (i + 1)..(k - 1) :
                      /\ notifyTrace[j].op = "stop_notify"
                      /\ notifyTrace[j].char = notifyTrace[i].char
    /\ notifyPc = "returned" =>
          \A i \in 1..Len(notifyTrace) :
             /\ (notifyTrace[i].op = "start_notify" /\ notifyTrace[i].ok) =>
                   /\ notifyTrace[Len(notifyTrace)].op = "close"
                   /\ notifyTrace[Len(notifyTrace) - 1].op = "stop_notify"
             /\ notifyTrace[i].op = "timeout" => notifyResult = "False"
             /\ ( /\ notifyTrace[i].op = "notification"
                  /\ notifyTrace[Len(notifyTrace) - 1].ok )
                   => notifyResult = "True"

C26_Witness ==
    /\ notifyPc = "returned"
    /\ notifyResult = "False"
    /\ Len(notifyTrace) = 5
    /\ notifyTrace[2].op = "start_notify" /\ notifyTrace[2].ok
    /\ notifyTrace[3].op = "timeout"
    /\ notifyTrace[4].op = "stop_notify" /\ notifyTrace[4].char = "2A19"
    /\ notifyTrace[5].op = "close"

\* C27: when retrieving the function list fails, the caller gets $null and
\* no exception: Get-AzureFunctionAppFunctions returns $null, the ByPattern
\* and ByType functions return $null, and the export writes no CSV file.
C27_FailureIsNull ==
    LET failure == ~azure.app \/ ~azure.token \/ ~azure.rest
    IN /\ ~call.raised
       /\ (call.function # "none" /\ failure) =>
             /\ call.value = Null
             /\ csv.file = "absent"
       /\ GetAzureFunctionAppFunctions(azure).value.null =>
             /\ \A pattern \in { << "a", "p", "i" >>, << >> } :
                   GetAzureFunctionAppFunctionsByPattern(azure, pattern).value
                      = Null
             /\ \A t \in {"HttpTrigger", "TimerTrigger"} :
                   GetAzureFunctionAppFunctionsByType(azure, t).value = Null
             /\ ExportAzureFunctionAppFunctionsToCSV(azure).file = "absent"

C27_Witness ==
    /\ call.function = "Export-AzureFunctionAppFunctionsToCSV"
    /\ azure.app /\ azure.token /\ ~azure.rest
    /\ Len(azure.functions) = 2
    /\ csv.file = "absent"
    /\ ~call.raised

\* C28: every configured size lies within its autoscaling bounds (default
\* pool 1 <= 3 <= 10, GPU pool 0 <= 1 <= 5, manual target 5 within [1, 10],
\* 3 replicas within [2, 10]) and no scaling step leaves a count outside its
\* [min, max].
C28_CountsWithinBounds ==
    /\ DefaultMinCount <= DefaultNodeCount /\ DefaultNodeCount <= DefaultMaxCount
    /\ GpuMinCount <= GpuNodeCount /\ GpuNodeCount <= GpuMaxCount
    /\ DefaultMinCount <= ManualNodeCount /\ ManualNodeCount <= DefaultMaxCount
    /\ MinReplicas <= Replicas /\ Replicas <= MaxReplicas
    /\ << DefaultMinCount, DefaultNodeCount, DefaultMaxCount >> = << 1, 3, 10 >>
    /\ << GpuMinCount, GpuNodeCount, GpuMaxCount >> = << 0, 1, 5 >>
    /\ << MinReplicas, Replicas, MaxReplicas, ManualNodeCount >>
          = << 2, 3, 10, 5 >>
    /\ 1 <= nodes["default"] /\ nodes["default"] <= 10
    /\ 0 <= nodes["gpunodepool"] /\ nodes["gpunodepool"] <= 5
    /\ 2 <= replicas /\ replicas <= 10

C28_Witness ==
    /\ nodes["default"] = 5
    /\ nodes["gpunodepool"] = 5
    /\ replicas = 10

====
